---- MODULE Spec2Model ----
(***************************************************************************)
(* Model of the WhatsApp adapter class BaileysClass (src/unnamed/part_000) *)
(* and of its helper library (src/src/lib/utils.js).                       *)
(*                                                                         *)
(* Four specifications share the variables:                                *)
(*   Spec        the connection lifecycle,                                 *)
(*   SpecStream  the inbound event stream of an open connection,           *)
(*   SpecNorm    the messages.upsert normaliser applied to one raw event,  *)
(*   SpecSend    the outbound dispatch router applied to one send() call.  *)
(***************************************************************************)
EXTENDS Integers, Sequences, FiniteSets, TLC

\* ------------------------------------------------------------- bounds
\* number of initBailey() calls a run may make (the constructor's included)
MaxInits == 3
\* number of 'qr' events a run may emit
MaxQr == 1
\* number of raw messages.upsert events a run may deliver
MaxUpserts == 1
\* number of raw messages.update events a run may deliver
MaxUpdates == 1
\* number of entries in one messages.update batch
MaxBatch == 2
\* number of entries in options.buttons of one send() call
MaxButtons == 3
\* options of a poll, and voters one option can have
MaxOptions == 3
MaxVoters == 2
\* fragments in a contact identifier
MaxIdLen == 3
\* generalDownload calls in one run, and the last value of the clock
MaxAcquires == 2
MaxClock == 2

\* ------------------------------------------------------------- constants
\* DisconnectReason.loggedOut of the connection library
LoggedOut == 401
\* DisconnectReason.connectionClosed: one of the other reason codes
ConnectionClosed == 428
\* lastDisconnect?.error?.output?.statusCode when the event carries no code
Undefined == 0

StatusCodes == {Undefined, LoggedOut, ConnectionClosed}

\* the message keys of the run (key.remoteJid, key.id)
Keys == {"k1", "k2"}

VARIABLES
    \* ---- connection lifecycle (class fields and the process around them)
    conn,         \* status of every socket makeWASocket has returned, by number
    sock,         \* this.sock: the socket created last (0: not yet assigned)
    vendor,       \* this.vendor (0: null)
    store,        \* this.store: number of the store created last (0: null)
    stored,       \* the keys this.store can load
    snapshot,     \* the keys in baileys_store.json of the session directory
    timers,       \* intervals started by setInterval (none is ever cleared)
    sessionDir,   \* the session directory: "creds", "empty" or "absent"
    globalsBound, \* whether the host binds the free identifiers join, rimraf
    crashed,      \* an uncaught exception has ended the process
    nInits,       \* initBailey() calls so far
    initAuth,     \* initBailey calls awaiting useMultiFileAuthState
    initVersion,  \* initBailey calls awaiting fetchLatestBaileysVersion
    initFailed,   \* initBailey calls that ended in a rejected promise
    loClosed,     \* logged-out close events handled
    clearRunning, \* rimraf calls whose callback has not run
    wipes,        \* rimraf calls that removed the session directory
    loRestarts,   \* initBailey() calls made by the rimraf callback
    listeners,    \* per socket: times initBusEvents registered busEvents on it
    nReady, nQr, authFailures,   \* 'ready', 'qr', 'auth_failure' emitted
    \* ---- inbound event stream
    nUpserts,     \* raw messages.upsert events delivered so far
    nUpdates,     \* raw messages.update events delivered so far
    tasks,        \* messages.update handlers suspended at an await
    emitted,      \* the 'message' events emitted, in order: the number of the
                  \* raw event each comes from, its type, the key of its
                  \* entry and, for a poll, what getMessage resolved to
    \* ---- SpecNorm / SpecSend: one call and its result
    call,         \* the operation's input
    result,       \* the operation's outcome
    done,         \* whether the operation has run
    \* ---- SpecAcquire: generalDownload calls in flight
    acq,          \* the generalDownload calls made so far, in order of call
    files,        \* the paths that exist on the filesystem
    clock         \* what Date.now() returns

lifeVars == <<conn, sock, vendor, store, stored, snapshot, timers, sessionDir,
              globalsBound, crashed, nInits, initAuth, initVersion, initFailed,
              loClosed, clearRunning, wipes, loRestarts, listeners,
              nReady, nQr, authFailures>>
streamVars == <<nUpserts, nUpdates, tasks, emitted>>
callVars == <<call, result, done>>
acqVars == <<acq, files, clock>>
vars == <<lifeVars, streamVars, callVars, acqVars>>

\* no generalDownload call has been made: nothing of the model's is on the
\* filesystem
NoAcquire ==
    /\ acq = <<>>
    /\ files = {}
    /\ clock = 1

\* ------------------------------------------------------------- lifecycle

\* constructor: fields set, then this.initBailey() runs to its first await
Init ==
    /\ conn = <<>>
    /\ sock = 0
    /\ vendor = 0
    /\ store = 0
    /\ stored = {}
    /\ snapshot \in {{}, {"k1"}}
    /\ timers = 0
    /\ sessionDir \in {"creds", "absent"}
    /\ (sessionDir = "absent" => snapshot = {})
    /\ globalsBound \in BOOLEAN
    /\ crashed = FALSE
    /\ nInits = 1
    /\ initAuth = 1
    /\ initVersion = 0
    /\ initFailed = 0
    /\ loClosed = 0
    /\ clearRunning = 0
    /\ wipes = 0
    /\ loRestarts = 0
    /\ listeners = <<>>
    /\ nReady = 0
    /\ nQr = 0
    /\ authFailures = 0
    /\ nUpserts = 0
    /\ nUpdates = 0
    /\ tasks = {}
    /\ emitted = <<>>
    /\ call = "none"
    /\ result = "none"
    /\ done = FALSE
    /\ NoAcquire

\* initBailey, line 58: useMultiFileAuthState settles. It creates the session
\* directory when missing; when the directory is unreadable it rejects, and the
\* rejection leaves initBailey before its try block.
InitAuthDone(ok) ==
    /\ ~crashed
    /\ initAuth > 0
    /\ initAuth' = initAuth - 1
    /\ IF ok
         THEN /\ initVersion' = initVersion + 1
              /\ sessionDir' = IF sessionDir = "absent" THEN "empty" ELSE sessionDir
              /\ UNCHANGED initFailed
         ELSE /\ initFailed' = initFailed + 1
              /\ UNCHANGED <<initVersion, sessionDir>>
    /\ UNCHANGED <<conn, sock, vendor, store, stored, snapshot, timers,
                   globalsBound, crashed, nInits, loClosed, clearRunning, wipes,
                   loRestarts, listeners, nReady, nQr, authFailures>>
    /\ UNCHANGED <<streamVars, callVars, acqVars>>

\* setUpBaileySock: makeWASocket returns a socket (sockOk) or throws. The
\* function is async, so a throw rejects its promise and never reaches the
\* catch block of initBailey, which is entered only by a synchronous throw.
setUpBaileySock(sockOk) ==
    /\ IF sockOk
         THEN /\ conn' = Append(conn, "connecting")
              /\ sock' = Len(conn) + 1
              /\ listeners' = Append(listeners, 0)
              /\ UNCHANGED initFailed
         ELSE /\ initFailed' = initFailed + 1
              /\ UNCHANGED <<conn, sock, listeners>>
    /\ UNCHANGED authFailures

\* initBailey, lines 59-72: fetchLatestBaileysVersion settles, then the new
\* store is read from the snapshot file, the interval is started and the
\* socket is set up, all in one synchronous run.
InitVersionDone(sockOk) ==
    /\ ~crashed
    /\ initVersion > 0
    /\ initVersion' = initVersion - 1
    /\ store' = store + 1
    /\ stored' = IF sessionDir = "absent" THEN {} ELSE snapshot
    /\ timers' = timers + 1
    /\ setUpBaileySock(sockOk)
    /\ UNCHANGED <<vendor, snapshot, sessionDir, globalsBound, crashed, nInits,
                   initAuth, loClosed, clearRunning, wipes, loRestarts,
                   nReady, nQr>>
    /\ UNCHANGED <<streamVars, callVars, acqVars>>

\* the connection.update events a socket in status st can report
Updates(st) ==
    { u \in [connection : {"none", "open", "close"}, statusCode : StatusCodes,
             qr : BOOLEAN] :
        /\ u.connection = "open" => st = "connecting" /\ ~u.qr
        /\ u.connection = "close" => ~u.qr
        /\ u.connection = "none" => u.qr /\ st = "connecting"
        /\ u.connection # "close" => u.statusCode = Undefined }

\* The effect of handleConnectionUpdate, given which of initBailey (line 101)
\* and clearSessionAndRestart (line 102) the close branch calls.
\* clearSessionAndRestart evaluates join(...) first: a ReferenceError when the
\* identifier is unbound, which ends the handler.
ConnectionUpdateEffect(update, callInit, callClear) ==
    LET threw == callClear /\ ~globalsBound
        isOpen == ~threw /\ update.connection = "open"
    IN  /\ initAuth' = IF callInit THEN initAuth + 1 ELSE initAuth
        /\ nInits' = IF callInit THEN nInits + 1 ELSE nInits
        /\ loClosed' = IF update.connection = "close" /\ update.statusCode = LoggedOut
                         THEN loClosed + 1 ELSE loClosed
        /\ clearRunning' = IF callClear /\ ~threw THEN clearRunning + 1
                           ELSE clearRunning
        /\ vendor' = IF isOpen THEN sock ELSE vendor
        /\ listeners' = IF isOpen
                          THEN [listeners EXCEPT ![sock] = @ + 1]
                          ELSE listeners
        /\ nReady' = IF isOpen THEN nReady + 1 ELSE nReady
        /\ nQr' = IF ~threw /\ update.qr THEN nQr + 1 ELSE nQr
        /\ UNCHANGED <<sessionDir, snapshot, wipes, loRestarts>>

\* faulty variant: line 102 without its condition, the session is cleared on every close
handleConnectionUpdate_clearOnAnyClose(update) ==
    ConnectionUpdateEffect(update,
        update.connection = "close" /\ update.statusCode # LoggedOut,
        update.connection = "close")

\* faulty variant: line 101 without its condition, initBailey runs on every close
handleConnectionUpdate_initOnAnyClose(update) ==
    ConnectionUpdateEffect(update,
        update.connection = "close",
        update.connection = "close" /\ update.statusCode = LoggedOut)

\* handleConnectionUpdate, lines 96-112
handleConnectionUpdate(update) ==
    ConnectionUpdateEffect(update,
        update.connection = "close" /\ update.statusCode # LoggedOut,
        update.connection = "close" /\ update.statusCode = LoggedOut)

\* socket s reports a connection.update; a socket reports 'close' once and
\* nothing after it
ConnectionUpdate(s, update) ==
    /\ ~crashed
    /\ conn[s] # "closed"
    /\ update \in Updates(conn[s])
    /\ update.connection = "close" => nInits < MaxInits
    /\ update.qr => nQr < MaxQr
    /\ conn' = [conn EXCEPT ![s] =
                  CASE update.connection = "open" -> "open"
                    [] update.connection = "close" -> "closed"
                    [] OTHER -> @]
    /\ handleConnectionUpdate(update)
    /\ UNCHANGED <<sock, store, stored, timers, globalsBound, crashed,
                   initVersion, initFailed, authFailures>>
    /\ UNCHANGED <<streamVars, callVars, acqVars>>

\* clearSessionAndRestart, lines 116-119: the rimraf callback runs
RimrafDone(err) ==
    /\ ~crashed
    /\ clearRunning > 0
    /\ clearRunning' = clearRunning - 1
    /\ IF err
         THEN UNCHANGED <<sessionDir, snapshot, wipes, loRestarts, initAuth, nInits>>
         ELSE /\ sessionDir' = "absent"
              /\ snapshot' = {}
              /\ wipes' = wipes + 1
              /\ loRestarts' = loRestarts + 1
              /\ initAuth' = initAuth + 1
              /\ nInits' = nInits + 1
    /\ UNCHANGED <<conn, sock, vendor, store, stored, timers, globalsBound,
                   crashed, initVersion, initFailed, loClosed, listeners,
                   nReady, nQr, authFailures>>
    /\ UNCHANGED <<streamVars, callVars, acqVars>>

\* socket s reports creds.update: saveCreds writes the credentials into the
\* session directory (the write fails when the directory is gone)
CredsUpdate(s) ==
    /\ ~crashed
    /\ conn[s] # "closed"
    /\ sessionDir = "empty"
    /\ sessionDir' = "creds"
    /\ UNCHANGED <<conn, sock, vendor, store, stored, snapshot, timers,
                   globalsBound, crashed, nInits, initAuth, initVersion,
                   initFailed, loClosed, clearRunning, wipes, loRestarts,
                   listeners, nReady, nQr, authFailures>>
    /\ UNCHANGED <<streamVars, callVars, acqVars>>

\* initBailey, lines 64-66: an interval fires and writes this.store to the
\* snapshot file; writeFileSync throws when the directory is gone, and the
\* exception is uncaught
StoreTick ==
    /\ ~crashed
    /\ timers > 0
    /\ IF sessionDir = "absent"
         THEN crashed' = TRUE /\ UNCHANGED snapshot
         ELSE snapshot' = stored /\ UNCHANGED crashed
    /\ snapshot' # snapshot \/ crashed' # crashed
    /\ UNCHANGED <<conn, sock, vendor, store, stored, timers, sessionDir,
                   globalsBound, nInits, initAuth, initVersion, initFailed,
                   loClosed, clearRunning, wipes, loRestarts, listeners,
                   nReady, nQr, authFailures>>
    /\ UNCHANGED <<streamVars, callVars, acqVars>>

\* ------------------------------------------------------------- utils.js

\* Text is a sequence of fragments, read as their concatenation. The group
\* domain '@g.us' is the two fragments "@g" and ".us" side by side, so that a
\* text can hold a part of it; no other fragments join to a domain.
GroupDomain == <<"@g", ".us">>
UserDomain == <<"@s.whatsapp.net">>

\* String.prototype.indexOf, counted from 1: 0 when piece does not occur
IndexOf(seq, piece) ==
    LET at == { i \in 1..(Len(seq) - Len(piece) + 1) :
                  SubSeq(seq, i, i + Len(piece) - 1) = piece }
    IN  IF at = {} THEN 0 ELSE CHOOSE i \in at : \A j \in at : i <= j

\* String.prototype.replace(piece, ''): the first occurrence is removed
RemoveFirst(seq, piece) ==
    LET i == IndexOf(seq, piece)
    IN  IF i = 0 THEN seq
        ELSE SubSeq(seq, 1, i - 1) \o SubSeq(seq, i + Len(piece), Len(seq))

\* String.prototype.includes
Includes(seq, piece) == IndexOf(seq, piece) # 0

\* faulty variant: the domain is appended without being removed first
formatPhone_appendOnly(contact, full) ==
    LET domain == IF Includes(contact, GroupDomain) THEN GroupDomain ELSE UserDomain
    IN  IF ~full THEN contact \o domain ELSE contact

\* utils.formatPhone, lines 11-15
formatPhone(contact, full) ==
    LET domain == IF Includes(contact, GroupDomain) THEN GroupDomain ELSE UserDomain
        bare == RemoveFirst(contact, domain)
    IN  IF ~full THEN bare \o domain ELSE bare

\* ------------------------------------------------------------- EventNormalizer

Broadcast == <<"status@broadcast">>
\* the remoteJid of the first message: an individual, a group, a bare number,
\* the status channel, or the empty string
Senders ==
    {<<"123">> \o UserDomain, <<"456">> \o GroupDomain, <<"123">>, Broadcast, <<>>}

\* one messages.upsert event, as far as the handler reads it: the type tag and
\* the fields of messages[0] (hasFirst: the array is not empty)
RawUpserts ==
    [type : {"notify", "append"}, hasFirst : BOOLEAN, key : Keys,
     from : Senders, fromMe : BOOLEAN, pollUpdate : BOOLEAN,
     location : {"none", "numeric", "other"},
     image : BOOLEAN, document : BOOLEAN, audio : BOOLEAN,
     text : {"none", "conversation", "extended", "both"},
     button : BOOLEAN, list : BOOLEAN]

\* line 134: extendedTextMessage?.text ?? conversation
TextBody(ev) ==
    CASE ev.text \in {"extended", "both"} -> "extendedText"
      [] ev.text = "conversation" -> "conversation"
      [] OTHER -> "undefined"

\* faulty variant: the detections as an else-if chain, the first match kept
Classify_firstMatch(ev) ==
    IF ev.location = "numeric"
      THEN [type |-> "location", body |-> "_event_location_"]
    ELSE IF ev.image THEN [type |-> "image", body |-> "_event_media_"]
    ELSE IF ev.document THEN [type |-> "file", body |-> "_event_document_"]
    ELSE IF ev.audio THEN [type |-> "voice", body |-> "_event_voice_note_"]
    ELSE [type |-> "text", body |-> TextBody(ev)]

\* lines 148-168: the four detections, each an if of its own that overwrites
\* what the one before it assigned
Classify(ev) ==
    LET p0 == [type |-> "text", body |-> TextBody(ev)]
        p1 == IF ev.location = "numeric"
                THEN [type |-> "location", body |-> "_event_location_"] ELSE p0
        p2 == IF ev.image THEN [type |-> "image", body |-> "_event_media_"] ELSE p1
        p3 == IF ev.document
                THEN [type |-> "file", body |-> "_event_document_"] ELSE p2
        p4 == IF ev.audio
                THEN [type |-> "voice", body |-> "_event_voice_note_"] ELSE p3
    IN  p4

\* faulty variant: the replies replace the body of a text message only
Overrides_textOnly(ev, p) ==
    LET b1 == IF ev.button /\ p.type = "text" THEN "selectedDisplayText" ELSE p.body
        b2 == IF ev.list /\ p.type = "text" THEN "listTitle" ELSE b1
    IN  [p EXCEPT !.body = b2]

\* lines 175-179: the button reply, then the list reply, replace the body
Overrides(ev, p) ==
    LET b1 == IF ev.button THEN "selectedDisplayText" ELSE p.body
        b2 == IF ev.list THEN "listTitle" ELSE b1
    IN  [p EXCEPT !.body = b2]

\* faulty variant: the handler without the fromMe filter of line 146
upsertFunc_noSelfFilter(ev) ==
    IF ev.type # "notify" THEN <<>>
    ELSE IF ~ev.hasFirst THEN <<>>
    ELSE IF ev.pollUpdate THEN <<>>
    ELSE IF ev.from = Broadcast THEN <<>>
    ELSE IF formatPhone(ev.from, FALSE) = <<>> THEN <<>>
    ELSE LET p == Overrides(ev, Classify(ev))
         IN  <<[type |-> p.type, body |-> p.body,
                from |-> formatPhone(ev.from, FALSE), key |-> ev.key]>>

\* the messages.upsert handler, lines 127-183: the payloads it emits. With an
\* empty messages array line 140 reads a field of undefined and throws.
upsertFunc(ev) ==
    IF ev.type # "notify" THEN <<>>
    ELSE IF ~ev.hasFirst THEN <<>>
    ELSE IF ev.pollUpdate THEN <<>>
    ELSE IF ev.from = Broadcast THEN <<>>
    ELSE IF ev.fromMe THEN <<>>
    ELSE IF formatPhone(ev.from, FALSE) = <<>> THEN <<>>
    ELSE LET p == Overrides(ev, Classify(ev))
         IN  <<[type |-> p.type, body |-> p.body,
                from |-> formatPhone(ev.from, FALSE), key |-> ev.key]>>

\* ------------------------------------------------------------- inbound stream

\* the raw upsert events the lifecycle specification delivers
StreamUpserts ==
    [type : {"notify"}, hasFirst : {TRUE}, key : Keys,
     from : {<<"123">> \o UserDomain}, fromMe : {FALSE}, pollUpdate : {FALSE},
     location : {"none"}, image : {FALSE}, document : {FALSE}, audio : {FALSE},
     text : {"conversation"}, button : {FALSE}, list : {FALSE}]

\* one entry of a messages.update batch: its key and whether update.pollUpdates
\* is set
Entries == [key : Keys, poll : {TRUE}] \cup [key : {"k1"}, poll : {FALSE}]
Batches == UNION { [1..n -> Entries] : n \in 1..MaxBatch }

\* faulty variant: a key the store cannot load resolves to an empty message, as in the
\* branch without a store
getMessage_missingAsEmpty(key) ==
    IF store # 0
      THEN IF key \in stored THEN "message" ELSE "emptyMessage"
      ELSE IF globalsBound THEN "emptyMessage" ELSE "throws"

\* getMessage, lines 44-51, up to its await: what the call will resolve to
getMessage(key) ==
    IF store # 0
      THEN IF key \in stored THEN "message" ELSE "undefined"
      ELSE IF globalsBound THEN "emptyMessage" ELSE "throws"

\* lines 188-189: the entries of the batch still to visit, without the leading
\* ones that report no pollUpdates
RECURSIVE SkipToPoll(_)
SkipToPoll(rest) ==
    IF rest = <<>> THEN <<>>
    ELSE IF Head(rest).poll THEN rest
    ELSE SkipToPoll(Tail(rest))

\* messages.update handler, lines 188-190: the loop runs on over the entries
\* rest to the next await, the getMessage call of the next entry with
\* pollUpdates. The result is the suspended handler, or {} when the loop has
\* ended (or getMessage has thrown). first is the key of message[0].
RunLoop(id, copy, first, rest) ==
    LET todo == SkipToPoll(rest)
    IN  IF todo = <<>> \/ getMessage(Head(todo).key) = "throws" THEN {}
        ELSE {[id |-> id, copy |-> copy, first |-> first, rest |-> todo,
               pc |-> "getMessage", got |-> getMessage(Head(todo).key)]}

\* socket s can deliver message events to the handlers registered on it
EnvOpen(s) == ~crashed /\ conn[s] = "open" /\ listeners[s] > 0

\* raw message events are numbered in their order of arrival
nEv == nUpserts + nUpdates

\* socket s delivers messages.upsert: the store bound to the socket records
\* the message, and every registered copy of the handler runs to its end
Upsert(s, ev) ==
    /\ EnvOpen(s)
    /\ nUpserts < MaxUpserts
    /\ nUpserts' = nUpserts + 1
    /\ stored' = IF ev.hasFirst THEN stored \cup {ev.key} ELSE stored
    /\ emitted' = emitted \o
         [c \in 1..(listeners[s] * Len(upsertFunc(ev))) |->
            [src |-> nEv + 1, type |-> upsertFunc(ev)[1].type, key |-> ev.key,
             got |-> "none"]]
    /\ UNCHANGED <<nUpdates, tasks>>
    /\ UNCHANGED <<conn, sock, vendor, store, snapshot, timers, sessionDir,
                   globalsBound, crashed, nInits, initAuth, initVersion,
                   initFailed, loClosed, clearRunning, wipes, loRestarts,
                   listeners, nReady, nQr, authFailures>>
    /\ UNCHANGED <<callVars, acqVars>>

\* socket s delivers messages.update: every registered copy of the handler
\* starts and runs to its first await
Update(s, batch) ==
    /\ EnvOpen(s)
    /\ nUpdates < MaxUpdates
    /\ nUpdates' = nUpdates + 1
    /\ tasks' = tasks \cup
         UNION { RunLoop(nEv + 1, c, batch[1].key, batch) : c \in 1..listeners[s] }
    /\ UNCHANGED <<nUpserts, emitted>>
    /\ UNCHANGED <<lifeVars, callVars, acqVars>>

\* lines 190-195: getMessage has settled. A poll-creation message goes on to
\* getAggregateVotesInPollMessage and the next await; without one the loop
\* goes on.
ResumeGet(t) ==
    /\ ~crashed
    /\ t.pc = "getMessage"
    /\ tasks' = (tasks \ {t}) \cup
         (IF t.got # "undefined"
            THEN {[t EXCEPT !.pc = "aggregate"]}
            ELSE RunLoop(t.id, t.copy, t.first, Tail(t.rest)))
    /\ UNCHANGED <<nUpserts, nUpdates, emitted>>
    /\ UNCHANGED <<lifeVars, callVars, acqVars>>

\* lines 196-206: the votes are aggregated, the poll message is emitted and
\* the loop goes on
ResumeAggregate(t) ==
    /\ ~crashed
    /\ t.pc = "aggregate"
    /\ emitted' = Append(emitted,
         [src |-> t.id, type |-> "poll", key |-> Head(t.rest).key,
          got |-> t.got])
    /\ tasks' = (tasks \ {t}) \cup RunLoop(t.id, t.copy, t.first, Tail(t.rest))
    /\ UNCHANGED <<nUpserts, nUpdates>>
    /\ UNCHANGED <<lifeVars, callVars, acqVars>>

Stream ==
    \/ \E s \in 1..Len(conn) : \E ev \in StreamUpserts : Upsert(s, ev)
    \/ \E s \in 1..Len(conn) : \E batch \in Batches : Update(s, batch)
    \/ \E t \in tasks : ResumeGet(t)
    \/ \E t \in tasks : ResumeAggregate(t)

Lifecycle ==
    \/ \E ok \in BOOLEAN : InitAuthDone(ok)
    \/ \E sockOk \in BOOLEAN : InitVersionDone(sockOk)
    \/ \E s \in 1..Len(conn) : \E u \in Updates(conn[s]) : ConnectionUpdate(s, u)
    \/ \E err \in BOOLEAN : RimrafDone(err)
    \/ \E s \in 1..Len(conn) : CredsUpdate(s)
    \/ StoreTick

Next == Lifecycle

Spec == Init /\ [][Next]_vars

\* ------------------------------------------------------------- SpecNorm

\* the lifecycle and stream variables of an open connection with busEvents
\* registered, as InitStream has them
OpenConnection ==
    /\ conn = <<"open">>
    /\ sock = 1
    /\ vendor = 1
    /\ store = 1
    /\ snapshot = {"k1"}
    /\ stored = snapshot
    /\ timers = 1
    /\ sessionDir = "creds"
    /\ crashed = FALSE
    /\ nInits = 1
    /\ initAuth = 0
    /\ initVersion = 0
    /\ initFailed = 0
    /\ loClosed = 0
    /\ clearRunning = 0
    /\ wipes = 0
    /\ loRestarts = 0
    /\ listeners = <<1>>
    /\ nReady = 1
    /\ nQr = 0
    /\ authFailures = 0
    /\ nUpserts = 0
    /\ nUpdates = 0
    /\ tasks = {}
    /\ emitted = <<>>

\* The inbound stream is checked from the state the lifecycle reaches when the
\* first socket has reported 'open': created by the constructor's initBailey,
\* store read from the snapshot, interval started, busEvents registered once.
InitStream ==
    /\ OpenConnection
    /\ globalsBound = FALSE
    /\ call = "none"
    /\ result = "none"
    /\ done = FALSE
    /\ NoAcquire

NextStream == Stream

SpecStream == InitStream /\ [][NextStream]_vars

InitNorm ==
    /\ OpenConnection
    /\ globalsBound = FALSE
    /\ call \in RawUpserts
    /\ result = <<>>
    /\ done = FALSE
    /\ NoAcquire

\* the messages.upsert handler runs on the raw event
Normalize ==
    /\ ~done
    /\ result' = upsertFunc(call)
    /\ done' = TRUE
    /\ UNCHANGED <<lifeVars, streamVars, call, acqVars>>

NextNorm == Normalize

SpecNorm == InitNorm /\ [][NextNorm]_vars

\* ------------------------------------------------------------- DispatchRouter

\* mime.lookup and mime.contentType of an extension (mime-types)
MimeLookup(ext) ==
    CASE ext = "png" -> "image/png"
      [] ext = "mp4" -> "video/mp4"
      [] ext \in {"mp3", "mpga"} -> "audio/mpeg"
      [] ext = "opus" -> "audio/ogg"
      [] ext = "pdf" -> "application/pdf"
      [] OTHER -> "false"

\* mime.extension of a content type (mime-types)
MimeExtension(type) ==
    CASE type = "image/png" -> "png"
      [] type = "video/mp4" -> "mp4"
      [] type = "audio/mpeg" -> "mpga"
      [] type = "application/pdf" -> "pdf"
      [] OTHER -> "false"

\* String.prototype.includes on a content type
TypeIncludes(type, family) ==
    CASE family = "image" -> type = "image/png"
      [] family = "video" -> type = "video/mp4"
      [] family = "audio" -> type \in {"audio/mpeg", "audio/ogg"}
      [] OTHER -> FALSE

\* A media reference and what its acquisition meets: a path that exists
\* locally (path: its extensions) or a URL (header: the content-type the
\* server declares; transport: how the download ends), whether rename and the
\* transcoder succeed.
LocalMedia ==
    [set : {TRUE}, local : {TRUE},
     path : {<<"png">>, <<"mp4">>, <<"mp3">>, <<"pdf">>, <<"xyz">>},
     header : {"undefined"}, transport : {"finish"},
     renameOk : BOOLEAN, convertOk : BOOLEAN]
RemoteMedia ==
    [set : {TRUE}, local : {FALSE}, path : {<<>>},
     header : {"image/png", "video/mp4", "audio/mpeg", "application/pdf",
               "undefined"},
     transport : {"finish", "fileError", "requestError"},
     renameOk : BOOLEAN, convertOk : BOOLEAN]
NoMedia ==
    [set |-> FALSE, local |-> FALSE, path |-> <<>>, header |-> "undefined",
     transport |-> "finish", renameOk |-> TRUE, convertOk |-> TRUE]
Media == LocalMedia \cup RemoteMedia \cup {NoMedia}

Labels == {"yes", "no"}
ButtonLists == UNION { [1..n -> Labels] : n \in 0..MaxButtons }

\* utils.fileTypeFromFile, lines 113-120: the extension of the declared type
fileTypeFromFile(type) == MimeExtension(type)

\* utils.generalDownload, lines 30-87. mime and extname are free identifiers
\* of utils.js: unbound, the local branch throws in the promise executor and
\* fileTypeFromFile throws, and either way the call rejects. A request error
\* has no listener: the promise stays pending and the error is uncaught.
generalDownload(m) ==
    LET type == IF m.local THEN MimeLookup(m.path[Len(m.path)]) ELSE m.header
        ext == fileTypeFromFile(type)
        base == IF m.local THEN m.path ELSE <<>>
    IN  IF ~m.local /\ m.transport = "requestError"
          THEN [status |-> "pending", path |-> <<>>, uncaught |-> TRUE]
        ELSE IF ~m.local /\ m.transport = "fileError"
          THEN [status |-> "rejected", path |-> <<>>, uncaught |-> FALSE]
        ELSE IF ~globalsBound \/ ~m.renameOk
          THEN [status |-> "rejected", path |-> <<>>, uncaught |-> FALSE]
        ELSE [status |-> "ok", path |-> Append(base, ext), uncaught |-> FALSE]

\* utils.convertAudio, lines 88-112: the extension is replaced by opus;
\* ffmpeg is a free identifier of utils.js
convertAudio(m, path) ==
    IF ~globalsBound \/ ~m.convertOk
      THEN [status |-> "rejected", path |-> <<>>]
      ELSE [status |-> "ok", path |-> Append(SubSeq(path, 1, Len(path) - 1), "opus")]

Outcome(status, sender, calls, acquired) ==
    [status |-> status, sender |-> sender, calls |-> calls,
     acquired |-> acquired, uncaught |-> FALSE]

\* this.vendor.sendMessage(to, payload) at the end of a typed sender: with
\* vendor null the property read throws
vendorSend(sender, payload, acquired) ==
    IF vendor = 0
      THEN Outcome("rejected", sender, <<>>, acquired)
      ELSE Outcome("resolved", sender, <<payload>>, acquired)

\* faulty variant: the guard of line 369 off by one
sendPoll_oneOption(number, text, options) ==
    LET numberClean == formatPhone(number, FALSE)
    IN  IF Len(options) < 1 THEN Outcome("false", "sendPoll", <<>>, FALSE)
        ELSE vendorSend("sendPoll",
               [kind |-> "poll", to |-> numberClean, values |-> options,
                selectableCount |-> 1], FALSE)

\* sendPoll, lines 364-377
sendPoll(number, text, options) ==
    LET numberClean == formatPhone(number, FALSE)
    IN  IF Len(options) < 2 THEN Outcome("false", "sendPoll", <<>>, FALSE)
        ELSE vendorSend("sendPoll",
               [kind |-> "poll", to |-> numberClean, values |-> options,
                selectableCount |-> 1], FALSE)

\* sendText, lines 304-307
sendText(number) ==
    vendorSend("sendText",
      [kind |-> "text", to |-> formatPhone(number, FALSE), values |-> <<>>,
       selectableCount |-> 0], FALSE)

\* sendImage, sendVideo, sendAudio, sendFile, lines 257-325
sendTyped(sender, kind, number) ==
    vendorSend(sender,
      [kind |-> kind, to |-> formatPhone(number, FALSE), values |-> <<>>,
       selectableCount |-> 0], TRUE)

\* sendMedia, lines 231-248
sendMedia(number, m) ==
    LET file == generalDownload(m)
        mimeType == MimeLookup(file.path[Len(file.path)])
    IN  IF file.status # "ok"
          THEN [Outcome(file.status, "none", <<>>, TRUE)
                  EXCEPT !.uncaught = file.uncaught]
        ELSE IF mimeType = "false" THEN Outcome("rejected", "none", <<>>, TRUE)
        ELSE IF TypeIncludes(mimeType, "image")
          THEN sendTyped("sendImage", "image", number)
        ELSE IF TypeIncludes(mimeType, "video")
          THEN sendTyped("sendVideo", "video", number)
        ELSE IF TypeIncludes(mimeType, "audio")
          THEN IF convertAudio(m, file.path).status # "ok"
                 THEN Outcome("rejected", "none", <<>>, TRUE)
                 ELSE sendTyped("sendAudio", "audio", number)
        ELSE sendTyped("sendFile", "document", number)

\* faulty variant: lines 388 and 393 in the other order, media before buttons
sendMessage_mediaFirst(c) ==
    LET number == formatPhone(c.number, FALSE)
    IN  IF c.media.set THEN sendMedia(number, c.media)
        ELSE IF Len(c.buttons) # 0 THEN sendPoll(number, c.text, c.buttons)
        ELSE sendText(number)

\* sendMessage, lines 385-395
sendMessage(c) ==
    LET number == formatPhone(c.number, FALSE)
    IN  IF Len(c.buttons) # 0 THEN sendPoll(number, c.text, c.buttons)
        ELSE IF c.media.set THEN sendMedia(number, c.media)
        ELSE sendText(number)

SendCalls ==
    [number : {<<"123">>, <<"456">> \o GroupDomain}, text : {"hello"},
     buttons : ButtonLists, media : Media]

\* a send() call is made before the first socket has opened (vendor null) or
\* on the open connection
InitSend ==
    /\ \/ OpenConnection
       \/ /\ conn = <<"connecting">> /\ sock = 1 /\ vendor = 0 /\ store = 1
          /\ snapshot = {"k1"} /\ stored = snapshot /\ timers = 1
          /\ sessionDir = "creds" /\ crashed = FALSE /\ nInits = 1
          /\ initAuth = 0 /\ initVersion = 0 /\ initFailed = 0 /\ loClosed = 0
          /\ clearRunning = 0 /\ wipes = 0 /\ loRestarts = 0
          /\ listeners = <<0>> /\ nReady = 0 /\ nQr = 0 /\ authFailures = 0
          /\ nUpserts = 0 /\ nUpdates = 0 /\ tasks = {} /\ emitted = <<>>
    /\ globalsBound \in BOOLEAN
    /\ call \in SendCalls
    /\ result = Outcome("none", "none", <<>>, FALSE)
    /\ done = FALSE
    /\ NoAcquire

\* the application calls sendMessage(number, text, {options})
Send ==
    /\ ~done
    /\ result' = sendMessage(call)
    /\ crashed' = sendMessage(call).uncaught
    /\ done' = TRUE
    /\ UNCHANGED <<conn, sock, vendor, store, stored, snapshot, timers,
                   sessionDir, globalsBound, nInits, initAuth, initVersion,
                   initFailed, loClosed, clearRunning, wipes, loRestarts,
                   listeners, nReady, nQr, authFailures>>
    /\ UNCHANGED <<streamVars, call, acqVars>>

NextSend == Send

SpecSend == InitSend /\ [][NextSend]_vars

\* ------------------------------------------------------------- SpecPoll

\* the names of a poll's options, in the order of the poll-creation message
OptionNames == <<"red", "green", "blue", "white", "black">>

\* what getAggregateVotesInPollMessage returns: one {name, voters} per option,
\* in option order; the model keeps the number of voters
PollVotes ==
    UNION { { [i \in 1..n |-> [name |-> OptionNames[i], voters |-> c[i]]] :
                c \in [1..n -> 0..MaxVoters] } : n \in 1..MaxOptions }

\* Array.prototype.find: the first element with voters, <<>> for undefined
RECURSIVE FindVoted(_)
FindVoted(pollMessage) ==
    IF pollMessage = <<>> THEN <<>>
    ELSE IF Head(pollMessage).voters > 0 THEN <<Head(pollMessage)>>
    ELSE FindVoted(Tail(pollMessage))

\* faulty variant: the last element with voters, not the first
pollPayload_findLast(key, pollMessage) ==
    LET voted == { i \in 1..Len(pollMessage) : pollMessage[i].voters > 0 }
        last == CHOOSE i \in voted : \A j \in voted : j <= i
    IN  [type |-> "poll", from |-> key,
         body |-> IF voted = {} THEN "" ELSE pollMessage[last].name]

\* lines 196-206: the payload built for an entry whose poll-creation message
\* was found. body: pollMessage.find(poll => poll.voters.length > 0)?.name || ''
pollPayload(key, pollMessage) ==
    LET found == FindVoted(pollMessage)
    IN  [type |-> "poll", from |-> key,
         body |-> IF found = <<>> THEN "" ELSE found[1].name]

InitPoll ==
    /\ OpenConnection
    /\ globalsBound = FALSE
    /\ call \in [key : Keys, votes : PollVotes]
    /\ result = [type |-> "none", from |-> "none", body |-> "none"]
    /\ done = FALSE
    /\ NoAcquire

\* the messages.update handler has the poll-creation message of the entry and
\* emits its payload
EmitPoll ==
    /\ ~done
    /\ result' = pollPayload(call.key, call.votes)
    /\ done' = TRUE
    /\ UNCHANGED <<lifeVars, streamVars, call, acqVars>>

NextPoll == EmitPoll

SpecPoll == InitPoll /\ [][NextPoll]_vars

\* ------------------------------------------------------------- SpecFormat

\* the fragments identifiers are drawn from: a digit, the group domain in its
\* two parts, the individual domain
Fragments == {"1", "@g", ".us", "@s.whatsapp.net"}
Identifiers == UNION { [1..n -> Fragments] : n \in 0..MaxIdLen }

InitFormat ==
    /\ OpenConnection
    /\ globalsBound = FALSE
    /\ call \in Identifiers
    /\ result = <<>>
    /\ done = FALSE
    /\ NoAcquire

\* formatPhone(x) is called on the identifier, then on what it returned
Format ==
    /\ ~done
    /\ result' = Append(result,
         formatPhone(IF result = <<>> THEN call ELSE result[Len(result)], FALSE))
    /\ done' = (Len(result) = 1)
    /\ UNCHANGED <<lifeVars, streamVars, call, acqVars>>

NextFormat == Format

SpecFormat == InitFormat /\ [][NextFormat]_vars

\* ------------------------------------------------------------- SpecAcquire

\* A media reference: whether the string is a well-formed URL, and the
\* extension it ends in (xyz: one the mime tables do not know).
Refs == [url : BOOLEAN, exts : {<<"png">>}] \cup [url : {FALSE}, exts : {<<"xyz">>}]

\* A path: tmp is the clock value in the name of a temporary file (0: not a
\* temporary file), url whether the name is the text of a URL, exts the
\* extensions it ends in.
RefPath(ref) == [tmp |-> 0, url |-> ref.url, exts |-> ref.exts]

\* lines 37-38: `${tmpdir()}/tmp-${Date.now()}-dat`
TmpPath == [tmp |-> clock, url |-> FALSE, exts |-> <<>>]

\* the content types a server declares ("undefined": no header)
Headers == {"image/png", "undefined"}

\* faulty variant: a well-formed URL is downloaded even when it exists as a path
checkIsLocal_unlessUrl(ref) == ~ref.url /\ RefPath(ref) \in files

\* line 31: existsSync(url)
checkIsLocal(ref) == RefPath(ref) \in files

\* one generalDownload call. existed: whether the reference was an existing
\* path when the call was made; requested: handleHttp.get was called; tmp:
\* the temporary file; src and ext: the arguments of handleFile; cause: the
\* first failure the call met; status, error, path: how its promise settled.
Acquire(ref) ==
    [ref |-> ref, existed |-> RefPath(ref) \in files, local |-> checkIsLocal(ref),
     requested |-> FALSE, tmp |-> TmpPath, pc |-> "start", type |-> "undefined",
     ext |-> "undefined", src |-> TmpPath, cause |-> "none",
     status |-> "pending", error |-> "none", path |-> TmpPath]

Settle(a, status, error, path) ==
    [a EXCEPT !.pc = "settled", !.status = status, !.error = error, !.path = path]

\* lines 82-84: handleDownload has resolved with a content type;
\* fileTypeFromFile maps it to an extension (mime is a free identifier of
\* utils.js) and handleFile issues the rename
AwaitFile(a, type, src) ==
    IF ~globalsBound THEN Settle(a, "rejected", "ReferenceError", a.path)
    ELSE [a EXCEPT !.pc = "renaming", !.type = type, !.src = src,
                   !.ext = fileTypeFromFile(type),
                   !.cause = IF fileTypeFromFile(type) = "false" /\ @ = "none"
                               THEN "type" ELSE @]

\* generalDownload is called, lines 31-70: the write stream on the temporary
\* file is created whatever the source; a local reference resolves at once
\* with the type of its extension (extname and mime are free identifiers), a
\* string that is no URL makes handleHttp.get throw in the promise executor,
\* a URL is requested.
handleDownload(ref) ==
    /\ ~crashed
    /\ Len(acq) < MaxAcquires
    /\ files' = files \cup {TmpPath}
    /\ LET a == Acquire(ref)
       IN  acq' = Append(acq,
             IF a.local
               THEN IF ~globalsBound
                      THEN Settle(a, "rejected", "ReferenceError", a.path)
                      ELSE AwaitFile(a, MimeLookup(ref.exts[Len(ref.exts)]),
                                     RefPath(ref))
             ELSE IF ~ref.url THEN Settle(a, "rejected", "TypeError", a.path)
             ELSE [a EXCEPT !.pc = "requesting", !.requested = TRUE])
    /\ UNCHANGED <<lifeVars, streamVars, callVars, clock>>

\* line 58: the response arrives and is piped into the write stream
Response(i, header) ==
    /\ ~crashed
    /\ acq[i].pc = "requesting"
    /\ acq' = [acq EXCEPT ![i].pc = "streaming", ![i].type = header]
    /\ UNCHANGED <<lifeVars, streamVars, callVars, files, clock>>

\* the request or the response stream reports an error: no listener is
\* registered for it, so the error is uncaught and the promise is never
\* settled
RequestError(i) ==
    /\ ~crashed
    /\ acq[i].pc \in {"requesting", "streaming"}
    /\ acq' = [acq EXCEPT ![i].pc = "abandoned", ![i].cause = "transport"]
    /\ crashed' = TRUE
    /\ UNCHANGED <<conn, sock, vendor, store, stored, snapshot, timers,
                   sessionDir, globalsBound, nInits, initAuth, initVersion,
                   initFailed, loClosed, clearRunning, wipes, loRestarts,
                   listeners, nReady, nQr, authFailures>>
    /\ UNCHANGED <<streamVars, callVars, files, clock>>

\* lines 64-67: the write stream of the download reports an error: rej(null)
FileError(i) ==
    /\ ~crashed
    /\ acq[i].pc = "streaming"
    /\ acq' = [acq EXCEPT ![i] = Settle([@ EXCEPT !.cause = "transport"],
                                        "rejected", "null", @.path)]
    /\ UNCHANGED <<lifeVars, streamVars, callVars, files, clock>>

\* lines 60-63: the write stream has finished: res({response, fullPath})
Finish(i) ==
    /\ ~crashed
    /\ acq[i].pc = "streaming"
    /\ acq' = [acq EXCEPT ![i] = AwaitFile(@, @.type, @.tmp)]
    /\ UNCHANGED <<lifeVars, streamVars, callVars, files, clock>>

\* handleFile, lines 73-80: rename(pathInput, `${pathInput}.${ext}`) calls
\* back. It fails when pathInput is no longer there, and may fail otherwise
\* (ok); an error rejects with null.
handleFile(i, ok) ==
    /\ ~crashed
    /\ acq[i].pc = "renaming"
    /\ LET a == acq[i]
           fullPath == [a.src EXCEPT !.exts = Append(@, a.ext)]
       IN  IF ok /\ a.src \in files
             THEN /\ files' = (files \ {a.src}) \cup {fullPath}
                  /\ acq' = [acq EXCEPT ![i] = Settle(a, "ok", "none", fullPath)]
             ELSE /\ files' = files
                  /\ acq' = [acq EXCEPT ![i] =
                       Settle([a EXCEPT !.cause = IF @ = "none" THEN "rename" ELSE @],
                              "rejected", "null", a.path)]
    /\ UNCHANGED <<lifeVars, streamVars, callVars, clock>>

\* a millisecond passes
Tick ==
    /\ ~crashed
    /\ clock < MaxClock
    /\ clock' = clock + 1
    /\ UNCHANGED <<lifeVars, streamVars, callVars, acq, files>>

\* calls are made on an open connection; any of the references may exist as
\* a path
InitAcquire ==
    /\ OpenConnection
    /\ globalsBound \in BOOLEAN
    /\ call = "none"
    /\ result = "none"
    /\ done = FALSE
    /\ acq = <<>>
    /\ files \in SUBSET { RefPath(ref) : ref \in Refs }
    /\ clock = 1

NextAcquire ==
    \/ \E ref \in Refs : handleDownload(ref)
    \/ \E i \in 1..Len(acq) : \E header \in Headers : Response(i, header)
    \/ \E i \in 1..Len(acq) : RequestError(i)
    \/ \E i \in 1..Len(acq) : FileError(i)
    \/ \E i \in 1..Len(acq) : Finish(i)
    \/ \E i \in 1..Len(acq) : \E ok \in BOOLEAN : handleFile(i, ok)
    \/ Tick

SpecAcquire == InitAcquire /\ [][NextAcquire]_vars

\* ============================================================= properties

\* ---- C1 (Spec)
\* C1 as claimed: a logged-out close wipes the persisted session state and then
\* starts exactly one initBailey: no restart precedes its wipe, and once no
\* wipe is running every logged-out close has wiped and has restarted once.
C1_WipeThenOneRestart ==
    /\ loRestarts <= wipes
    /\ clearRunning = 0 => (wipes = loClosed /\ loRestarts = loClosed)

\* ---- C2 (Spec)
\* C2: handling a close with any reason other than logged-out calls initBailey
\* at once and leaves the session directory and its snapshot as they are; no
\* wipe is started.
C2_TransientCloseKeepsSession ==
    [][\A s \in 1..Len(conn) : \A u \in Updates(conn[s]) :
         (ConnectionUpdate(s, u) /\ u.connection = "close"
                                 /\ u.statusCode # LoggedOut)
           => /\ sessionDir' = sessionDir
              /\ snapshot' = snapshot
              /\ clearRunning' = clearRunning
              /\ wipes' = wipes
              /\ initAuth' = initAuth + 1]_vars

\* a socket has closed for a reason other than logged-out, the credentials are
\* still there and the new initBailey is under way
C2_Witness ==
    /\ \E s \in 1..Len(conn) : conn[s] = "closed"
    /\ loClosed = 0
    /\ sessionDir = "creds"
    /\ nInits = 2
    /\ initAuth = 1

\* ---- C3 (Spec)
ActiveSockets == { s \in 1..Len(conn) : conn[s] # "closed" }

\* C3: at most one socket is not closed, and conn, this.sock and this.vendor
\* change only when an initBailey sets up its socket or a socket reports a
\* connection.update.
C3_OneActiveConnection ==
    /\ [](Cardinality(ActiveSockets) <= 1)
    /\ [][(conn' # conn \/ sock' # sock \/ vendor' # vendor)
            => \/ \E sockOk \in BOOLEAN : InitVersionDone(sockOk)
               \/ \E s \in 1..Len(conn) : \E u \in Updates(conn[s]) :
                    ConnectionUpdate(s, u)]_vars

\* the first socket has closed and its successor is the one active socket
C3_Witness ==
    /\ Len(conn) = 2
    /\ conn[1] = "closed"
    /\ conn[2] = "open"
    /\ vendor = 2

\* ---- C4 (SpecNorm)
\* the type the claimed precedence location > image > document > audio > text
\* assigns
FirstMatchType(ev) ==
    CASE ev.location = "numeric" -> "location"
      [] ev.location # "numeric" /\ ev.image -> "image"
      [] ev.location # "numeric" /\ ~ev.image /\ ev.document -> "file"
      [] ev.location # "numeric" /\ ~ev.image /\ ~ev.document /\ ev.audio -> "voice"
      [] OTHER -> "text"

\* the type the precedence audio > document > image > location > text assigns
LastMatchType(ev) ==
    CASE ev.audio -> "voice"
      [] ~ev.audio /\ ev.document -> "file"
      [] ~ev.audio /\ ~ev.document /\ ev.image -> "image"
      [] ~ev.audio /\ ~ev.document /\ ~ev.image /\ ev.location = "numeric" -> "location"
      [] OTHER -> "text"

C5_FilteredEmitNothing ==
    (/\ done
     /\ \/ call.type # "notify"
        \/ call.hasFirst /\ call.pollUpdate
        \/ call.hasFirst /\ call.from = Broadcast
        \/ call.hasFirst /\ call.fromMe)
      => result = <<>>

\* a notify event of the account's own, with an image and a button reply, has
\* been handled and nothing was emitted
C5_Witness ==
    /\ done
    /\ call.type = "notify" /\ call.hasFirst /\ call.fromMe
    /\ ~call.pollUpdate /\ call.from # Broadcast
    /\ call.image /\ call.button
    /\ result = <<>>

\* ---- C6 (SpecStream)
\* C6 as claimed: the 'message' events are emitted in the order of arrival of
\* the raw events they come from.
C6_EmissionFollowsArrival ==
    \A i \in 1..Len(emitted) : \A j \in 1..Len(emitted) :
        i < j => emitted[i].src <= emitted[j].src

\* ---- C7 (SpecSend)
\* C7: a send() with exactly one button returns false and makes no call of the
\* connection's sendMessage, with or without options.media.
C7_OneButtonFails ==
    (done /\ Len(call.buttons) = 1) =>
        (result.status = "false" /\ result.calls = <<>>)

\* a send() with one button and a media reference has returned false
C7_Witness ==
    /\ done
    /\ Len(call.buttons) = 1
    /\ call.media.set
    /\ result.status = "false"
    /\ result.calls = <<>>

\* ---- C8 (SpecSend)
\* the typed sender the media's type family selects ("none": no type is found)
FamilySender(m) ==
    LET type == IF m.local THEN m.path[1] ELSE m.header
    IN  CASE type \in {"png", "image/png"} -> "sendImage"
          [] type \in {"mp4", "video/mp4"} -> "sendVideo"
          [] type \in {"mp3", "audio/mpeg"} -> "sendAudio"
          [] type \in {"pdf", "application/pdf"} -> "sendFile"
          [] OTHER -> "none"

\* acquisition ends with a file of a recognised type (and a transcoded one for
\* audio)
Acquirable(m) ==
    /\ globalsBound
    /\ m.transport = "finish"
    /\ m.renameOk
    /\ FamilySender(m) # "none"
    /\ FamilySender(m) = "sendAudio" => m.convertOk

SenderKind(sender) ==
    CASE sender = "sendImage" -> "image"
      [] sender = "sendVideo" -> "video"
      [] sender = "sendAudio" -> "audio"
      [] sender = "sendFile" -> "document"
      [] sender = "sendText" -> "text"
      [] sender = "sendPoll" -> "poll"
      [] OTHER -> "none"

IsPollOf(calls, buttons) ==
    /\ Len(calls) = 1
    /\ calls[1].kind = "poll"
    /\ calls[1].values = buttons
    /\ calls[1].selectableCount = 1

C9_FailureEmitsAuthFailure == authFailures = initFailed

\* ---- C10 (SpecStream)
\* C10: every poll message emitted comes from an entry whose key getMessage
\* resolved to a stored message: an entry whose key the store cannot load
\* emits nothing, whatever the other entries of its batch do.
C10_UnknownPollEmitsNothing ==
    \A i \in 1..Len(emitted) :
        emitted[i].type = "poll" =>
            (emitted[i].got = "message" /\ emitted[i].key \in stored)

\* a batch has emitted the poll message of its first entry and its second
\* entry has a key the store cannot load
C10_Witness ==
    \E t \in tasks :
        /\ t.pc = "getMessage"
        /\ t.got = "undefined"
        /\ Head(t.rest).key \notin stored
        /\ \E i \in 1..Len(emitted) :
             emitted[i].src = t.id /\ emitted[i].type = "poll"

\* ---- C11 (SpecPoll)
\* C11 as claimed: the emitted message has type 'poll' and its body names an
\* option that has the most voters, or is the empty string when no option has
\* any voter.
C11_BodyIsMostVoted ==
    done =>
        /\ result.type = "poll"
        /\ LET pm == call.votes
           IN  IF \A i \in 1..Len(pm) : pm[i].voters = 0
                 THEN result.body = ""
                 ELSE \E i \in 1..Len(pm) :
                        /\ result.body = pm[i].name
                        /\ \A j \in 1..Len(pm) : pm[j].voters <= pm[i].voters

\* C11: the emitted message has type 'poll' and its body names the first
\* option, in option order, that has at least one voter, or is the empty
\* string when no option has any voter.
C11_BodyIsFirstVoted ==
    done =>
        /\ result.type = "poll"
        /\ LET pm == call.votes
           IN  IF \A i \in 1..Len(pm) : pm[i].voters = 0
                 THEN result.body = ""
                 ELSE \E i \in 1..Len(pm) :
                        /\ result.body = pm[i].name
                        /\ pm[i].voters > 0
                        /\ \A j \in 1..(i - 1) : pm[j].voters = 0

\* a poll message was emitted for votes whose first voted option is neither
\* the first option nor the only voted one
C11_Witness ==
    /\ done
    /\ Len(call.votes) = 3
    /\ call.votes[1].voters = 0
    /\ call.votes[2].voters = 1
    /\ call.votes[3].voters = 2
    /\ result.body = "green"

\* ---- C12 (SpecNorm)
\* C12 as claimed: a message whose sender identifier is malformed (it has no
\* text besides a domain) is dropped: the handler emits nothing for it.
C12_InvalidSenderDropped ==
    (done /\ call.hasFirst /\ formatPhone(call.from, TRUE) = <<>>) =>
        result = <<>>

\* ---- C13 (SpecNorm)
\* C13: an emitted message that carries a button reply or a list reply has the
\* reply's display text as its body (the list title when it carries both),
\* whatever it was classified as, and its type is the one classification
\* chose.
C13_ReplyOverridesBodyOnly ==
    (done /\ result # <<>> /\ (call.button \/ call.list)) =>
        /\ call.list => result[1].body = "listTitle"
        /\ (call.button /\ ~call.list) => result[1].body = "selectedDisplayText"
        /\ result[1].type = LastMatchType(call)

\* a message with numeric coordinates and a button reply was emitted with
\* type 'location' and the button's display text as body
C13_Witness ==
    /\ done
    /\ call.location = "numeric"
    /\ ~call.image /\ ~call.document /\ ~call.audio
    /\ call.button /\ ~call.list
    /\ result # <<>>
    /\ result[1].type = "location"
    /\ result[1].body = "selectedDisplayText"

\* ---- C14 (SpecFormat)
EndsWith(seq, piece) ==
    /\ Len(piece) <= Len(seq)
    /\ SubSeq(seq, Len(seq) - Len(piece) + 1, Len(seq)) = piece

\* an identifier in one of the two domain forms: text that holds neither
\* domain, alone or followed by one domain
Canonical(x) ==
    \E d \in {<<>>, UserDomain, GroupDomain} :
        /\ EndsWith(x, d)
        /\ LET bare == SubSeq(x, 1, Len(x) - Len(d))
           IN  ~Includes(bare, UserDomain) /\ ~Includes(bare, GroupDomain)

\* C14 as claimed: for every identifier x, formatPhone(formatPhone(x)) equals
\* formatPhone(x), and an x that ends in the individual or the group domain is
\* returned unchanged.
C14_IdempotentForAll ==
    done =>
        /\ result[2] = result[1]
        /\ (EndsWith(call, UserDomain) \/ EndsWith(call, GroupDomain)) =>
               result[1] = call

\* C14: for every identifier x in one of the two domain forms,
\* formatPhone(formatPhone(x)) equals formatPhone(x), and an x that ends in
\* its domain is returned unchanged.
C14_IdempotentOnCanonical ==
    (done /\ Canonical(call)) =>
        /\ result[2] = result[1]
        /\ (EndsWith(call, UserDomain) \/ EndsWith(call, GroupDomain)) =>
               result[1] = call

\* a group identifier was formatted twice and came back unchanged both times
C14_Witness ==
    /\ done
    /\ call = <<"1">> \o GroupDomain
    /\ result = <<call, call>>

\* ---- C15 (SpecAcquire)
\* C15: a generalDownload call on a reference that exists as a path, URL or
\* not, never issues a network request, and when it returns a path the
\* extension added is the one the reference's own extension maps to.
C15_LocalTakesPrecedence ==
    \A i \in 1..Len(acq) :
        acq[i].existed =>
            /\ ~acq[i].requested
            /\ acq[i].pc \notin {"requesting", "streaming", "abandoned"}
            /\ acq[i].status = "ok" =>
                 LET exts == acq[i].ref.exts
                 IN  acq[i].path =
                       [RefPath(acq[i].ref) EXCEPT !.exts =
                          Append(exts, MimeExtension(MimeLookup(exts[Len(exts)])))]

\* a call on a well-formed URL that exists as a path has returned the path
\* with the extension of png added, without a request
C15_Witness ==
    \E i \in 1..Len(acq) :
        /\ acq[i].existed
        /\ acq[i].ref.url
        /\ ~acq[i].requested
        /\ acq[i].status = "ok"
        /\ acq[i].path.exts = <<"png", "png">>

\* ---- C16 (SpecAcquire)
\* C16 as claimed: a generalDownload call whose reference is neither an
\* existing path nor a URL, or whose download has met a transport error, has
\* failed: its promise is rejected, not left pending.
C16_FailureRejects ==
    \A i \in 1..Len(acq) :
        ((~acq[i].existed /\ ~acq[i].ref.url) \/ acq[i].cause = "transport") =>
            acq[i].status = "rejected"

\* ---- C17 (SpecAcquire)
\* C17 as claimed: every call that met one of the three failure causes has
\* failed, and two calls that met different causes have failed with
\* different errors.
C17_CausesDistinguishable ==
    \A i, j \in 1..Len(acq) :
        (/\ acq[i].cause # "none" /\ acq[j].cause # "none"
         /\ acq[i].pc \in {"settled", "abandoned"}
         /\ acq[j].pc \in {"settled", "abandoned"}) =>
            /\ acq[i].status = "rejected"
            /\ acq[i].cause # acq[j].cause => acq[i].error # acq[j].error

\* ---- C18 (SpecAcquire)
\* C18 as claimed: two downloads in flight at the same time write to
\* different temporary files.
C18_DistinctTempFiles ==
    \A i, j \in 1..Len(acq) :
        (/\ i # j
         /\ acq[i].requested /\ acq[j].requested
         /\ acq[i].pc \in {"requesting", "streaming", "renaming"}
         /\ acq[j].pc \in {"requesting", "streaming", "renaming"}) =>
            acq[i].tmp # acq[j].tmp

\* ---- C19 (Spec)
\* C19 as claimed: at most one persistence interval is active, and none is
\* active while the session directory is removed.
C19_OneTimerCancelledOnTeardown ==
    /\ timers <= 1
    /\ sessionDir = "absent" => timers = 0

\* ---- C20 (Spec)
\* C20 as claimed: a non-null vendor is a socket that has reported 'open' and
\* has not reported 'close' since.
C20_VendorIsOpenConnection ==
    vendor # 0 => conn[vendor] = "open"

\* ---- C21 (SpecAcquire)
\* C21 as claimed: after a generalDownload call on a reference that existed
\* as a path has returned, the file is still there under the path it was
\* given.
C21_LocalSourceKept ==
    \A i \in 1..Len(acq) :
        (acq[i].existed /\ acq[i].status = "ok") => RefPath(acq[i].ref) \in files

\* InitStream is a state of Spec
StreamStartReached ==
    /\ conn = <<"open">> /\ sock = 1 /\ vendor = 1 /\ store = 1
    /\ stored = snapshot /\ timers = 1 /\ sessionDir = "creds"
    /\ nInits = 1 /\ initAuth = 0 /\ initVersion = 0 /\ initFailed = 0
    /\ listeners = <<1>> /\ nReady = 1 /\ nQr = 0
====
